---------------------------- MODULE Spec2Model ----------------------------
(***************************************************************************)
(* A model of fractals.cu: the three escape-time kernels (Mandelbrot,      *)
(* Julia, Burning Ship), the colour mapping, the grid launch over a        *)
(* width x height image, and the host driver that renders seven scenes     *)
(* and saves each as a PPM file.                                           *)
(*                                                                         *)
(* Numbers.  The code computes the plane mapping in double and the         *)
(* iteration in float.  Both are modelled as binary-style fixed-point      *)
(* numbers with the IEEE special values: a finite value n stands for       *)
(* n/DUnit (double) or n/FUnit (float); a result whose magnitude exceeds   *)
(* the format's largest finite value becomes +-infinity; inf - inf and     *)
(* 0 * inf are NaN; every comparison with NaN is false.  Products and      *)
(* quotients are rounded to the nearest grid value.  Expressions are       *)
(* evaluated as written (no fused multiply-add contraction).               *)
(*                                                                         *)
(* logf, sqrtf, sinf and expf have no integer counterpart: the smoothing   *)
(* term and the non-black colours are kept as symbolic terms over their    *)
(* arguments (equal arguments give equal terms, as for any function).      *)
(***************************************************************************)
EXTENDS Integers, Naturals, Sequences, FiniteSets, TLC

(***************************************************************************)
(* Bounds of the model.  MAX_ITER is the program's 1000 scaled down; FUnit *)
(* is the resolution of the float grid, FMax and DMax the largest finite   *)
(* float and double (in grid units); CMax bounds the starting values of    *)
(* the loop and MaxWidth the width of a launch.  WIDTH, HEIGHT and         *)
(* BlockDim are the program's 1920, 1080 and 16 scaled down, so that the   *)
(* orders in which the threads of a launch run can be enumerated.          *)
(***************************************************************************)
MAX_ITER == 4
FUnit == 4
FMax == 8000
DMax == 1000000
CMax == 12
MaxWidth == 3

WIDTH == 3
HEIGHT == 2
BlockDim == 2

DUnit == 2 * FUnit

(***************************************************************************)
(* The number formats.                                                     *)
(***************************************************************************)
Fin(n) == [cls |-> "fin", v |-> n]
PInf == [cls |-> "inf", v |-> 1]
NInf == [cls |-> "inf", v |-> -1]
NaN == [cls |-> "nan", v |-> 0]

IsNaN(a) == a.cls = "nan"
IsInf(a) == a.cls = "inf"
IsFin(a) == a.cls = "fin"

Sgn(n) == IF n > 0 THEN 1 ELSE IF n < 0 THEN -1 ELSE 0

Inf(s) == IF s >= 0 THEN PInf ELSE NInf

\* p / q rounded to the nearest integer, q > 0
RoundDiv(p, q) ==
    IF p >= 0 THEN (2 * p + q) \div (2 * q)
    ELSE -((2 * (-p) + q) \div (2 * q))

\* a finite result n, or the infinity it overflows to
Rounded(n, max) ==
    IF n > max THEN PInf ELSE IF n < -max THEN NInf ELSE Fin(n)

Neg(a) == IF IsNaN(a) THEN NaN ELSE [cls |-> a.cls, v |-> -a.v]

Add(a, b, max) ==
    IF IsNaN(a) \/ IsNaN(b) THEN NaN
    ELSE IF IsInf(a) /\ IsInf(b) THEN (IF a.v = b.v THEN a ELSE NaN)
    ELSE IF IsInf(a) THEN a
    ELSE IF IsInf(b) THEN b
    ELSE Rounded(a.v + b.v, max)

Mul(a, b, unit, max) ==
    IF IsNaN(a) \/ IsNaN(b) THEN NaN
    ELSE IF IsInf(a) \/ IsInf(b)
         THEN (IF a.v = 0 \/ b.v = 0 THEN NaN ELSE Inf(Sgn(a.v) * Sgn(b.v)))
    ELSE Rounded(RoundDiv(a.v * b.v, unit), max)

Div(a, b, unit, max) ==
    IF IsNaN(a) \/ IsNaN(b) THEN NaN
    ELSE IF IsInf(a) THEN (IF IsInf(b) THEN NaN
                           ELSE Inf(a.v * (IF b.v < 0 THEN -1 ELSE 1)))
    ELSE IF IsInf(b) THEN Fin(0)
    ELSE IF b.v = 0 THEN (IF a.v = 0 THEN NaN ELSE Inf(a.v))
    ELSE Rounded(Sgn(b.v) * RoundDiv(a.v * unit, b.v * Sgn(b.v)), max)

\* a < b; false when either is NaN
Less(a, b) ==
    /\ ~IsNaN(a)
    /\ ~IsNaN(b)
    /\ IF IsInf(a) THEN a.v < 0 /\ ~(IsInf(b) /\ b.v < 0)
       ELSE IF IsInf(b) THEN b.v > 0
       ELSE a.v < b.v

\* a >= b; false when either is NaN
GreaterEq(a, b) == ~IsNaN(a) /\ ~IsNaN(b) /\ ~Less(a, b)

\* float arithmetic
FAdd(a, b) == Add(a, b, FMax)
FSub(a, b) == Add(a, Neg(b), FMax)
FMul(a, b) == Mul(a, b, FUnit, FMax)

fabsf(a) == IF IsNaN(a) THEN NaN ELSE [cls |-> a.cls, v |-> a.v * Sgn(a.v)]

\* double arithmetic
DAdd(a, b) == Add(a, b, DMax)
DSub(a, b) == Add(a, Neg(b), DMax)
DMul(a, b) == Mul(a, b, DUnit, DMax)
DDiv(a, b) == Div(a, b, DUnit, DMax)

\* an int converted to double
IntToDouble(n) == Rounded(n * DUnit, DMax)

\* a double narrowed to float: rounded to the float grid, infinite when out of range
DoubleToFloat(d) ==
    IF ~IsFin(d) THEN d ELSE Rounded(RoundDiv(d.v * FUnit, DUnit), FMax)

make_float2(a, b) == [x |-> a, y |-> b]

FZero == Fin(0)
Bailout == Fin(16 * FUnit)

(***************************************************************************)
(* The device functions.                                                   *)
(***************************************************************************)
complex_mul(a, b) ==
    make_float2(FSub(FMul(a.x, b.x), FMul(a.y, b.y)),
                FAdd(FMul(a.x, b.y), FMul(a.y, b.x)))

complex_mag_squared(q) == FAdd(FMul(q.x, q.x), FMul(q.y, q.y))


(***************************************************************************)
(* Colours.  {0, 0, 0} is Black; every other colour get_color returns is   *)
(* the symbolic term Rainbow(iter, smooth_iter).  Indeterminate is the     *)
(* content of memory nothing has written yet.                              *)
(***************************************************************************)
NoSmooth == [fn |-> "zero", of |-> FZero]
LogLog(m) == [fn |-> "loglog", of |-> m]

Black == [rgb |-> "black", iter |-> 0, smooth |-> NoSmooth]
Rainbow(i, s) == [rgb |-> "rainbow", iter |-> i, smooth |-> s]
Indeterminate == [rgb |-> "indeterminate", iter |-> 0, smooth |-> NoSmooth]

get_color(i, s) == IF i = MAX_ITER THEN Black ELSE Rainbow(i, s)

(***************************************************************************)
(* The escape-time loop of each kernel, one pass of its body, its test,    *)
(* and the smoothing term computed after it.                               *)
(***************************************************************************)
LoopCond_radius(i, m) == i < MAX_ITER /\ Less(m, Fin(4 * FUnit))
LoopCond_nocap(i, m) == Less(m, Bailout)

LoopCond(i, m) == i < MAX_ITER /\ Less(m, Bailout)

MandelbrotBody(q, k) ==
    LET s == complex_mul(q, q)
    IN  make_float2(FAdd(s.x, k.x), FAdd(s.y, k.y))

JuliaBody(q, k) ==
    LET s == complex_mul(q, q)
    IN  make_float2(FAdd(s.x, k.x), FAdd(s.y, k.y))

BurningShipBody_absafter(q, k) ==
    LET s == complex_mul(q, q)
    IN  make_float2(FAdd(fabsf(s.x), k.x), FAdd(fabsf(s.y), k.y))

BurningShipBody(q, k) ==
    LET a == make_float2(fabsf(q.x), fabsf(q.y))
        s == complex_mul(a, a)
    IN  make_float2(FAdd(s.x, k.x), FAdd(s.y, k.y))

LoopBody(kn, q, k) ==
    IF kn = "mandelbrot" THEN MandelbrotBody(q, k)
    ELSE IF kn = "julia" THEN JuliaBody(q, k)
    ELSE BurningShipBody(q, k)

SmoothIter_bymag(i, m) == IF GreaterEq(m, Bailout) THEN LogLog(m) ELSE NoSmooth

SmoothIter(i, m) == IF i < MAX_ITER THEN LogLog(m) ELSE NoSmooth

\* the loop run to its end from (q, i, m): the final <<z, iter, mag_sq>>
RECURSIVE EscapeLoop(_, _, _, _, _)
EscapeLoop(kn, q, k, i, m) ==
    IF LoopCond(i, m)
    THEN LET n == LoopBody(kn, q, k)
         IN  EscapeLoop(kn, n, k, i + 1, complex_mag_squared(n))
    ELSE <<q, i, m>>

Kernels == {"mandelbrot", "julia", "burning_ship"}

(***************************************************************************)
(* The launch configuration: blocks of BlockDim x BlockDim threads, and a  *)
(* grid of enough blocks to cover the image.  A thread is its block and    *)
(* its place in the block.                                                 *)
(***************************************************************************)
GridDim_floor(n) == n \div BlockDim

GridDim(n) == (n + BlockDim - 1) \div BlockDim

Threads(w, h) ==
    [bx : 0..(GridDim(w) - 1), by : 0..(GridDim(h) - 1),
     tx : 0..(BlockDim - 1), ty : 0..(BlockDim - 1)]

\* blockIdx.x * blockDim.x + threadIdx.x, and the same for y
ThreadX(t) == t.bx * BlockDim + t.tx
ThreadY(t) == t.by * BlockDim + t.ty

InRange_inclusive(px, py, w, h) == ~(px > w \/ py > h)

\* the negation of the kernels' guard: if (x >= width || y >= height) return;
InRange(px, py, w, h) == ~(px >= w \/ py >= h)

(***************************************************************************)
(* The plane mapping of each kernel: the doubles <<real, imag>> of pixel   *)
(* (px, py).  a and b are the kernel's fourth and fifth arguments: the     *)
(* view's centre for the Mandelbrot and Burning Ship kernels, the Julia    *)
(* constant for the Julia kernel, which has no centre argument.            *)
(***************************************************************************)
Min(a, b) == IF a < b THEN a ELSE b

DTwo == Fin(2 * DUnit)
DFour == Fin(4 * DUnit)

Scale_width(zm, w, h) == DDiv(DFour, DMul(zm, IntToDouble(w)))

Scale(zm, w, h) == DDiv(DFour, DMul(zm, IntToDouble(Min(w, h))))

\* (p - n / 2.0) * scale
Offset(p, n, sc) == DMul(DSub(IntToDouble(p), DDiv(IntToDouble(n), DTwo)), sc)

MandelbrotMap(px, py, w, h, a, b, zm) ==
    LET sc == Scale(zm, w, h)
    IN  <<DAdd(a, Offset(px, w, sc)), DAdd(b, Offset(py, h, sc))>>

JuliaMap(px, py, w, h, a, b, zm) ==
    LET sc == Scale(zm, w, h)
    IN  <<Offset(px, w, sc), Offset(py, h, sc)>>

BurningShipMap(px, py, w, h, a, b, zm) ==
    LET sc == Scale(zm, w, h)
    IN  <<DAdd(a, Offset(px, w, sc)), DSub(b, Offset(py, h, sc))>>

PlaneMap(kn, px, py, w, h, a, b, zm) ==
    IF kn = "mandelbrot" THEN MandelbrotMap(px, py, w, h, a, b, zm)
    ELSE IF kn = "julia" THEN JuliaMap(px, py, w, h, a, b, zm)
    ELSE BurningShipMap(px, py, w, h, a, b, zm)

\* the float2 pair <<z, c>> a kernel starts its loop with
StartOf(kn, re, im, a, b) ==
    IF kn = "julia"
    THEN <<make_float2(DoubleToFloat(re), DoubleToFloat(im)),
           make_float2(DoubleToFloat(a), DoubleToFloat(b))>>
    ELSE <<make_float2(FZero, FZero),
           make_float2(DoubleToFloat(re), DoubleToFloat(im))>>

\* the colour a kernel stores for pixel (px, py)
PixelColor(kn, px, py, w, h, a, b, zm) ==
    LET m == PlaneMap(kn, px, py, w, h, a, b, zm)
        s == StartOf(kn, m[1], m[2], a, b)
        e == EscapeLoop(kn, s[1], s[2], 0, FZero)
    IN  get_color(e[2], SmoothIter(e[2], e[3]))

\* a decimal literal n/d of the source, as a double
Lit(n, d) == Rounded(RoundDiv(n * DUnit, d), DMax)

(***************************************************************************)
(* State.                                                                  *)
(*   kernel .. zoom     the arguments of the kernel in hand; center_x and  *)
(*                      center_y are the view's centre, julia_real and     *)
(*                      julia_imag the constant of a Julia scene           *)
(*   x .. pc            one thread of it: its pixel, the mapped point, the *)
(*                      loop's variables, the colour, and where it stands  *)
(*   d_image .. wrote   the device buffer, its content when the kernel was *)
(*                      launched, the threads of the launch that have      *)
(*                      finished, and every store of the launch as a pair  *)
(*                      <<thread, index>>                                  *)
(*   hpc .. out         the host: where main stands, the scene, the host   *)
(*                      buffer, whether each allocation succeeded, what    *)
(*                      fopen returned, the files written and the          *)
(*                      messages printed                                   *)
(***************************************************************************)
VARIABLES kernel, width, height, center_x, center_y, julia_real, julia_imag,
          zoom,
          x, y, real, imag, z, c, iter, mag_sq, smooth_iter, color, pc,
          d_image, prior, done, wrote,
          hpc, scene_no, h_image, h_ok, d_ok, fp, files, out

argVars == <<kernel, width, height, center_x, center_y, julia_real,
             julia_imag, zoom>>
pixVars == <<x, y, real, imag>>
loopVars == <<z, c, iter, mag_sq, smooth_iter, color, pc>>
gridVars == <<d_image, prior, done, wrote>>
hostVars == <<hpc, scene_no, h_image, h_ok, d_ok, fp, files, out>>
vars == <<argVars, pixVars, loopVars, gridVars, hostVars>>

\* the parts of the state a specification does not use
NoArgs ==
    /\ width = 1 /\ height = 1
    /\ center_x = Fin(0) /\ center_y = Fin(0)
    /\ julia_real = Fin(0) /\ julia_imag = Fin(0)
    /\ zoom = Fin(DUnit)
NoPixel == x = 0 /\ y = 0 /\ real = Fin(0) /\ imag = Fin(0)
NoLoop ==
    /\ z = make_float2(FZero, FZero) /\ c = make_float2(FZero, FZero)
    /\ iter = 0 /\ mag_sq = FZero /\ smooth_iter = NoSmooth
    /\ color = Indeterminate /\ pc = "idle"
NoGrid == d_image = <<>> /\ prior = <<>> /\ done = {} /\ wrote = {}
NoHost ==
    /\ hpc = "idle" /\ scene_no = 0 /\ h_image = <<>>
    /\ h_ok = TRUE /\ d_ok = TRUE /\ fp = "closed"
    /\ files = <<>> /\ out = <<>>

(***************************************************************************)
(* SpecEval: the escape-time loop, the smoothing term and the colour of    *)
(* one thread, from every float2 starting pair of a bounded set.  The      *)
(* Mandelbrot and Burning Ship kernels start from z = (0, 0) with c the    *)
(* narrowed mapped point; the Julia kernel starts from z the narrowed      *)
(* mapped point with c the scene's constant.  A mapped double beyond the   *)
(* float range narrows to an infinity, so the infinities are among the     *)
(* starting values.                                                        *)
(***************************************************************************)
FloatPts == {Fin(n) : n \in -CMax..CMax} \cup {PInf, NInf}

\* the constants main passes to julia_kernel
JuliaDoubles ==
    { <<Lit(-7, 10), Lit(27015, 100000)>>,
      <<Lit(-4, 10), Lit(6, 10)>>,
      <<Lit(285, 1000), Lit(1, 100)>> }

JuliaConstants ==
    { make_float2(DoubleToFloat(j[1]), DoubleToFloat(j[2])) : j \in JuliaDoubles }

InitEval ==
    /\ kernel \in Kernels
    /\ NoArgs /\ NoPixel /\ NoGrid /\ NoHost
    /\ \E p \in FloatPts, q \in FloatPts :
          IF kernel = "julia"
          THEN z = make_float2(p, q) /\ c \in JuliaConstants
          ELSE z = make_float2(FZero, FZero) /\ c = make_float2(p, q)
    /\ iter = 0
    /\ mag_sq = FZero
    /\ smooth_iter = NoSmooth
    /\ color = Indeterminate
    /\ pc = "loop"

\* one pass of the while loop of mandelbrot_kernel
MandelbrotIterate ==
    /\ pc = "loop"
    /\ kernel = "mandelbrot"
    /\ LoopCond(iter, mag_sq)
    /\ z' = MandelbrotBody(z, c)
    /\ mag_sq' = complex_mag_squared(z')
    /\ iter' = iter + 1
    /\ UNCHANGED <<c, smooth_iter, color, pc>>
    /\ UNCHANGED <<argVars, pixVars, gridVars, hostVars>>

\* one pass of the while loop of julia_kernel
JuliaIterate ==
    /\ pc = "loop"
    /\ kernel = "julia"
    /\ LoopCond(iter, mag_sq)
    /\ z' = JuliaBody(z, c)
    /\ mag_sq' = complex_mag_squared(z')
    /\ iter' = iter + 1
    /\ UNCHANGED <<c, smooth_iter, color, pc>>
    /\ UNCHANGED <<argVars, pixVars, gridVars, hostVars>>

\* one pass of the while loop of burning_ship_kernel
BurningShipIterate ==
    /\ pc = "loop"
    /\ kernel = "burning_ship"
    /\ LoopCond(iter, mag_sq)
    /\ z' = BurningShipBody(z, c)
    /\ mag_sq' = complex_mag_squared(z')
    /\ iter' = iter + 1
    /\ UNCHANGED <<c, smooth_iter, color, pc>>
    /\ UNCHANGED <<argVars, pixVars, gridVars, hostVars>>

\* the loop's test fails
LoopExit ==
    /\ pc = "loop"
    /\ ~LoopCond(iter, mag_sq)
    /\ pc' = "smooth"
    /\ UNCHANGED <<z, c, iter, mag_sq, smooth_iter, color>>
    /\ UNCHANGED <<argVars, pixVars, gridVars, hostVars>>

\* float smooth_iter = 0.0f; if (iter < MAX_ITER) smooth_iter = ...
Smooth ==
    /\ pc = "smooth"
    /\ smooth_iter' = SmoothIter(iter, mag_sq)
    /\ pc' = "color"
    /\ UNCHANGED <<z, c, iter, mag_sq, color>>
    /\ UNCHANGED <<argVars, pixVars, gridVars, hostVars>>

\* Color color = get_color(iter, smooth_iter)
GetColor ==
    /\ pc = "color"
    /\ color' = get_color(iter, smooth_iter)
    /\ pc' = "done"
    /\ UNCHANGED <<z, c, iter, mag_sq, smooth_iter>>
    /\ UNCHANGED <<argVars, pixVars, gridVars, hostVars>>

NextEval ==
    \/ MandelbrotIterate
    \/ JuliaIterate
    \/ BurningShipIterate
    \/ LoopExit
    \/ Smooth
    \/ GetColor

SpecEval == InitEval /\ [][NextEval]_vars

\* a thread that can take a step takes it
FairSpecEval == SpecEval /\ WF_vars(NextEval)

(***************************************************************************)
(* Claims about the escape-time loop (checked under SpecEval).             *)
(***************************************************************************)

\* C3, as stated: when the loop has ended the iteration count is in
\* [0, MAX_ITER], and a count below MAX_ITER comes with a final squared
\* magnitude >= 16.0.
C3_BailoutHonored ==
    pc \in {"smooth", "color", "done"} =>
        /\ iter \in 0..MAX_ITER
        /\ iter < MAX_ITER => GreaterEq(mag_sq, Bailout)

\* C3, amended: when the loop has ended the iteration count is in
\* [0, MAX_ITER], and a count below MAX_ITER comes with a final squared
\* magnitude that is not below 16.0: it is >= 16.0, or it is NaN (an iterate
\* was not finite).
C3_NotBelowBailout ==
    pc \in {"smooth", "color", "done"} =>
        /\ iter \in 0..MAX_ITER
        /\ iter < MAX_ITER => (GreaterEq(mag_sq, Bailout) \/ IsNaN(mag_sq))

\* a loop that ended by bailout after several passes, all values finite
C3_Witness ==
    /\ pc = "smooth"
    /\ iter > 1 /\ iter < MAX_ITER
    /\ IsFin(mag_sq) /\ GreaterEq(mag_sq, Bailout)

\* C4: the loop ends and the thread produces its colour; every pass of the
\* loop adds exactly one to the counter, which never passes MAX_ITER.
C4_Terminates ==
    /\ <>(pc = "done")
    /\ [][(pc = "loop" /\ pc' = "loop") =>
             (iter' = iter + 1 /\ iter' <= MAX_ITER)]_vars

\* a thread that made all MAX_ITER passes and then produced its colour
C4_Witness == pc = "done" /\ iter = MAX_ITER /\ color = Black

\* the iterates of the Mandelbrot loop from (q, i, m) on, the last included,
\* all have non-negative parts
RECURSIVE OrbitNonNeg(_, _, _, _)
OrbitNonNeg(q, k, i, m) ==
    /\ GreaterEq(q.x, FZero)
    /\ GreaterEq(q.y, FZero)
    /\ LoopCond(i, m) =>
           LET n == MandelbrotBody(q, k)
           IN  OrbitNonNeg(n, k, i + 1, complex_mag_squared(n))

MandelbrotResult(k) ==
    LET e == EscapeLoop("mandelbrot", make_float2(FZero, FZero), k, 0, FZero)
    IN  <<e[2], e[3]>>

\* C8: from z0 = (0, 0), for a constant c whose Mandelbrot iterates all have
\* non-negative real and imaginary parts, the Burning Ship loop ends with the
\* iteration count and the squared magnitude of the Mandelbrot loop.
C8_SameAsMandelbrot ==
    ( /\ kernel = "burning_ship"
      /\ pc \in {"smooth", "color", "done"}
      /\ OrbitNonNeg(make_float2(FZero, FZero), c, 0, FZero) )
    => <<iter, mag_sq>> = MandelbrotResult(c)

\* a Burning Ship loop that took the absolute values of a non-zero iterate,
\* on a constant of non-negative orbit
C8_Witness ==
    /\ kernel = "burning_ship"
    /\ pc = "done"
    /\ iter > 1
    /\ Less(FZero, c.x) /\ Less(FZero, c.y)
    /\ OrbitNonNeg(make_float2(FZero, FZero), c, 0, FZero)

\* C10: the cap is tested before the bailout: a thread whose count reached
\* MAX_ITER stores black whatever its squared magnitude, and the smoothing
\* term is computed only with a count below MAX_ITER.
C10_CapBeforeBailout ==
    /\ (pc = "done" /\ iter = MAX_ITER) => color = Black
    /\ (pc \in {"color", "done"} /\ smooth_iter # NoSmooth) => iter < MAX_ITER

\* a thread whose squared magnitude passed 16.0 in the very pass that
\* reached MAX_ITER, and that stored black
C10_Witness ==
    /\ pc = "done"
    /\ iter = MAX_ITER
    /\ GreaterEq(mag_sq, Bailout)
    /\ color = Black

(***************************************************************************)
(* SpecThread: one thread of a kernel launched over a width x height       *)
(* image for a view (center_x, center_y, zoom), from its guard to its      *)
(* colour.  The Julia kernel is given the scene's constant where the       *)
(* other two are given the view's centre.                                  *)
(***************************************************************************)
BigCentre == Fin(DMax \div 2)
Centres == {Fin(0), Lit(-5, 10), Lit(1889, 10000), BigCentre}
Zooms == {Fin(1), Lit(1, 1), Lit(100, 1)}

InitThread ==
    /\ kernel \in Kernels
    /\ width \in 1..MaxWidth
    /\ height \in 1..HEIGHT
    /\ center_x \in Centres
    /\ center_y \in Centres
    /\ zoom \in Zooms
    /\ \E j \in JuliaDoubles :
          IF kernel = "julia"
          THEN julia_real = j[1] /\ julia_imag = j[2]
          ELSE julia_real = Fin(0) /\ julia_imag = Fin(0)
    /\ \E t \in Threads(width, height) : x = ThreadX(t) /\ y = ThreadY(t)
    /\ real = Fin(0) /\ imag = Fin(0)
    /\ NoLoop /\ NoGrid /\ NoHost

\* if (x >= width || y >= height) return;
Return ==
    /\ pc = "idle"
    /\ ~InRange(x, y, width, height)
    /\ pc' = "returned"
    /\ UNCHANGED <<z, c, iter, mag_sq, smooth_iter, color>>
    /\ UNCHANGED <<argVars, pixVars, gridVars, hostVars>>

\* mandelbrot_kernel, from the guard to the loop
MandelbrotStart ==
    /\ pc = "idle"
    /\ kernel = "mandelbrot"
    /\ InRange(x, y, width, height)
    /\ LET m == MandelbrotMap(x, y, width, height, center_x, center_y, zoom)
           s == StartOf("mandelbrot", m[1], m[2], center_x, center_y)
       IN  /\ real' = m[1] /\ imag' = m[2]
           /\ z' = s[1] /\ c' = s[2]
    /\ iter' = 0 /\ mag_sq' = FZero
    /\ pc' = "loop"
    /\ UNCHANGED <<x, y, smooth_iter, color>>
    /\ UNCHANGED <<argVars, gridVars, hostVars>>

\* julia_kernel, from the guard to the loop
JuliaStart ==
    /\ pc = "idle"
    /\ kernel = "julia"
    /\ InRange(x, y, width, height)
    /\ LET m == JuliaMap(x, y, width, height, julia_real, julia_imag, zoom)
           s == StartOf("julia", m[1], m[2], julia_real, julia_imag)
       IN  /\ real' = m[1] /\ imag' = m[2]
           /\ z' = s[1] /\ c' = s[2]
    /\ iter' = 0 /\ mag_sq' = FZero
    /\ pc' = "loop"
    /\ UNCHANGED <<x, y, smooth_iter, color>>
    /\ UNCHANGED <<argVars, gridVars, hostVars>>

\* burning_ship_kernel, from the guard to the loop
BurningShipStart ==
    /\ pc = "idle"
    /\ kernel = "burning_ship"
    /\ InRange(x, y, width, height)
    /\ LET m == BurningShipMap(x, y, width, height, center_x, center_y, zoom)
           s == StartOf("burning_ship", m[1], m[2], center_x, center_y)
       IN  /\ real' = m[1] /\ imag' = m[2]
           /\ z' = s[1] /\ c' = s[2]
    /\ iter' = 0 /\ mag_sq' = FZero
    /\ pc' = "loop"
    /\ UNCHANGED <<x, y, smooth_iter, color>>
    /\ UNCHANGED <<argVars, gridVars, hostVars>>

NextThread ==
    \/ Return
    \/ MandelbrotStart
    \/ JuliaStart
    \/ BurningShipStart
    \/ NextEval

SpecThread == InitThread /\ [][NextThread]_vars

(***************************************************************************)
(* Claims about the plane mapping (checked under SpecThread).              *)
(***************************************************************************)
Mapped == pc \in {"loop", "smooth", "color", "done"}

\* scale = 4.0 / (zoom * min(width, height))
C9_Scale == DDiv(DFour, DMul(zoom, IntToDouble(Min(width, height))))
\* (x - width/2) * scale and (y - height/2) * scale
C9_OffX == DMul(DSub(IntToDouble(x), DDiv(IntToDouble(width), DTwo)), C9_Scale)
C9_OffY == DMul(DSub(IntToDouble(y), DDiv(IntToDouble(height), DTwo)), C9_Scale)

\* C9, as stated: for every kernel the mapped point of pixel (x, y) is
\* re = center_x + (x - width/2) * scale, im = center_y +/- (y - height/2) *
\* scale, minus for Burning Ship and plus for Mandelbrot and Julia: the
\* view's centre is applied by all three.
C9_CentreApplied ==
    Mapped =>
        /\ real = DAdd(center_x, C9_OffX)
        /\ imag = IF kernel = "burning_ship"
                  THEN DSub(center_y, C9_OffY)
                  ELSE DAdd(center_y, C9_OffY)

\* C9, amended: the Mandelbrot and Burning Ship kernels map pixel (x, y) to
\* re = center_x + (x - width/2) * scale, im = center_y +/- (y - height/2) *
\* scale (plus for Mandelbrot, minus for Burning Ship); the Julia kernel has
\* no centre and maps it to re = (x - width/2) * scale, im = (y - height/2) *
\* scale, whatever the view's centre.
C9_CentreButJulia ==
    Mapped =>
        IF kernel = "julia"
        THEN real = C9_OffX /\ imag = C9_OffY
        ELSE /\ real = DAdd(center_x, C9_OffX)
             /\ imag = IF kernel = "burning_ship"
                       THEN DSub(center_y, C9_OffY)
                       ELSE DAdd(center_y, C9_OffY)

\* a Julia thread, off the image's centre column and row, mapped for a view
\* whose centre is not the origin
C9_Witness ==
    /\ Mapped
    /\ kernel = "julia"
    /\ center_x # Fin(0) /\ center_y # Fin(0)
    /\ real # Fin(0) /\ imag # Fin(0)
    /\ width # height

(***************************************************************************)
(* SpecKernel: one launch of a kernel over a width x height image, its     *)
(* threads running in any order.  A thread is one step: it reads only the  *)
(* kernel's arguments and its own indices, and its one effect on shared    *)
(* state is its store into the image.  The buffer holds anything before    *)
(* the launch: it is fresh from cudaMalloc, or a previous scene's image.   *)
(* The host stands in cudaDeviceSynchronize.                               *)
(***************************************************************************)
Pixels(w, h) == 0..(w * h - 1)

\* image[idx] = col; a store outside the buffer does not change the buffer
Store(img, idx, col) ==
    IF idx \in DOMAIN img THEN [img EXCEPT ![idx] = col] ELSE img

\* the scenes of main: the kernel and its three double arguments
Scenes ==
    << [kernel |-> "mandelbrot", a |-> Lit(-5, 10), b |-> Lit(0, 1),
        zoom |-> Lit(1, 1), file |-> "mandelbrot_classic.ppm"],
       [kernel |-> "mandelbrot", a |-> Lit(-7, 10), b |-> Lit(0, 1),
        zoom |-> Lit(100, 1), file |-> "mandelbrot_zoom.ppm"],
       [kernel |-> "julia", a |-> Lit(-7, 10), b |-> Lit(27015, 100000),
        zoom |-> Lit(1, 1), file |-> "julia_1.ppm"],
       [kernel |-> "julia", a |-> Lit(-4, 10), b |-> Lit(6, 10),
        zoom |-> Lit(1, 1), file |-> "julia_2.ppm"],
       [kernel |-> "julia", a |-> Lit(285, 1000), b |-> Lit(1, 100),
        zoom |-> Lit(1, 1), file |-> "julia_3.ppm"],
       [kernel |-> "burning_ship", a |-> Lit(-18, 10), b |-> Lit(-8, 100),
        zoom |-> Lit(1, 1), file |-> "burning_ship.ppm"],
       [kernel |-> "mandelbrot", a |-> Lit(-7269, 10000), b |-> Lit(1889, 10000),
        zoom |-> Lit(10000, 1), file |-> "mandelbrot_deep_zoom.ppm"] >>

\* the kernel's arguments are those of scene s
ArgsOf(s) ==
    /\ kernel = s.kernel
    /\ zoom = s.zoom
    /\ IF s.kernel = "julia"
       THEN /\ julia_real = s.a /\ julia_imag = s.b
            /\ center_x = Fin(0) /\ center_y = Fin(0)
       ELSE /\ center_x = s.a /\ center_y = s.b
            /\ julia_real = Fin(0) /\ julia_imag = Fin(0)

KernelScenes == {Scenes[1], Scenes[3], Scenes[6]}

InitKernel ==
    /\ width \in 1..MaxWidth
    /\ height \in 1..HEIGHT
    /\ \E s \in KernelScenes : ArgsOf(s)
    /\ \E col \in {Indeterminate, Black} :
          d_image = [i \in Pixels(width, height) |-> col]
    /\ prior = d_image
    /\ done = {}
    /\ wrote = {}
    /\ NoPixel /\ NoLoop
    /\ hpc = "sync" /\ scene_no = 0 /\ h_image = <<>>
    /\ h_ok = TRUE /\ d_ok = TRUE /\ fp = "closed"
    /\ files = <<>> /\ out = <<>>

\* thread t of mandelbrot_kernel, from its indices to its store
MandelbrotThread ==
    \E t \in Threads(width, height) :
        /\ hpc = "sync"
        /\ kernel = "mandelbrot"
        /\ t \notin done
        /\ done' = done \cup {t}
        /\ LET px == ThreadX(t)
               py == ThreadY(t)
           IN  IF InRange(px, py, width, height)
               THEN /\ d_image' = Store(d_image, py * width + px,
                                     PixelColor("mandelbrot", px, py, width, height,
                                                center_x, center_y, zoom))
                    /\ wrote' = wrote \cup {<<t, py * width + px>>}
               ELSE UNCHANGED <<d_image, wrote>>
        /\ UNCHANGED prior
        /\ UNCHANGED <<argVars, pixVars, loopVars, hostVars>>

\* thread t of julia_kernel, from its indices to its store
JuliaThread ==
    \E t \in Threads(width, height) :
        /\ hpc = "sync"
        /\ kernel = "julia"
        /\ t \notin done
        /\ done' = done \cup {t}
        /\ LET px == ThreadX(t)
               py == ThreadY(t)
           IN  IF InRange(px, py, width, height)
               THEN /\ d_image' = Store(d_image, py * width + px,
                                     PixelColor("julia", px, py, width, height,
                                                julia_real, julia_imag, zoom))
                    /\ wrote' = wrote \cup {<<t, py * width + px>>}
               ELSE UNCHANGED <<d_image, wrote>>
        /\ UNCHANGED prior
        /\ UNCHANGED <<argVars, pixVars, loopVars, hostVars>>

\* thread t of burning_ship_kernel, from its indices to its store
BurningShipThread ==
    \E t \in Threads(width, height) :
        /\ hpc = "sync"
        /\ kernel = "burning_ship"
        /\ t \notin done
        /\ done' = done \cup {t}
        /\ LET px == ThreadX(t)
               py == ThreadY(t)
           IN  IF InRange(px, py, width, height)
               THEN /\ d_image' = Store(d_image, py * width + px,
                                     PixelColor("burning_ship", px, py, width, height,
                                                center_x, center_y, zoom))
                    /\ wrote' = wrote \cup {<<t, py * width + px>>}
               ELSE UNCHANGED <<d_image, wrote>>
        /\ UNCHANGED prior
        /\ UNCHANGED <<argVars, pixVars, loopVars, hostVars>>

NextKernel ==
    \/ MandelbrotThread
    \/ JuliaThread
    \/ BurningShipThread

SpecKernel == InitKernel /\ [][NextKernel]_vars

(***************************************************************************)
(* Claims about a kernel launch (checked under SpecKernel).                *)
(***************************************************************************)
Complete == done = Threads(width, height)

StoresTo(i) == {p \in wrote : p[2] = i}

\* C1: whatever the order of the threads, a store is made only by a thread
\* with x < width and y < height, into index y * width + x of the buffer; no
\* index is stored to twice; and when all threads of the rounded-up grid
\* have finished, every index in [0, width * height) was stored to exactly
\* once.
C1_WriteOnce ==
    /\ \A p \in wrote :
          /\ ThreadX(p[1]) < width /\ ThreadY(p[1]) < height
          /\ p[2] = ThreadY(p[1]) * width + ThreadX(p[1])
          /\ p[2] \in Pixels(width, height)
    /\ \A i \in Pixels(width, height) : Cardinality(StoresTo(i)) <= 1
    /\ Complete => \A i \in Pixels(width, height) : Cardinality(StoresTo(i)) = 1

\* a finished launch of two blocks over an image narrower than the grid
C1_Witness ==
    /\ Complete
    /\ width > BlockDim
    /\ height > 1
    /\ \E t \in done : ThreadX(t) >= width
    /\ Cardinality(wrote) = width * height

\* the image of the scene in the kernel's arguments, pixel by pixel
Rendered ==
    [i \in Pixels(width, height) |->
        IF kernel = "julia"
        THEN PixelColor(kernel, i % width, i \div width, width, height,
                        julia_real, julia_imag, zoom)
        ELSE PixelColor(kernel, i % width, i \div width, width, height,
                        center_x, center_y, zoom)]

\* C7: when all threads of a launch have finished, the buffer is the image
\* of the scene: it is the same whatever the order of the threads and
\* whatever the buffer held before the launch.
C7_Deterministic == Complete => d_image = Rendered

\* a finished launch over a buffer that held a black image, now an image
\* of several colours
C7_Witness ==
    /\ Complete
    /\ width * height > 1
    /\ \A i \in DOMAIN prior : prior[i] = Black
    /\ \E i, j \in DOMAIN d_image : d_image[i] # d_image[j]

(***************************************************************************)
(* SpecMain: main.  It allocates the two buffers without testing either    *)
(* result, then for each of the seven scenes launches the kernel, waits    *)
(* in cudaDeviceSynchronize, copies the device buffer to the host buffer   *)
(* and calls save_ppm; no call's result is tested.                         *)
(*                                                                         *)
(* malloc or cudaMalloc may fail, and fopen may fail.  After a failed      *)
(* malloc h_image is NULL; after a failed cudaMalloc d_image is an         *)
(* uninitialized pointer.  A kernel launched with that pointer stores      *)
(* through it, which is outside any buffer of the program; cudaMemcpy      *)
(* from or to such a pointer fails and copies nothing; fwrite from NULL    *)
(* is undefined: the process crashes with the file created and still      *)
(* empty, or fwrite writes bytes that are no image.                        *)
(***************************************************************************)
NSCENES == Len(Scenes)

\* a file that does not exist, and one fopen has created or truncated
NoFile == [exists |-> FALSE, header |-> <<>>, pixels |-> <<>>]
EmptyFile == [exists |-> TRUE, header |-> <<>>, pixels |-> <<>>]
FileNames == {Scenes[k].file : k \in 1..NSCENES}

Fresh == [i \in Pixels(WIDTH, HEIGHT) |-> Indeterminate]

\* where main goes on after save_ppm returned
AfterSave ==
    /\ hpc' = IF scene_no < NSCENES THEN "launch" ELSE "free"
    /\ scene_no' = IF scene_no < NSCENES THEN scene_no + 1 ELSE scene_no

InitMain ==
    /\ hpc = "malloc"
    /\ scene_no = 1
    /\ h_image = <<>>
    /\ h_ok = FALSE /\ d_ok = FALSE
    /\ fp = "closed"
    /\ files = [f \in FileNames |-> NoFile]
    /\ out = <<>>
    /\ d_image = <<>> /\ prior = <<>> /\ done = {} /\ wrote = {}
    /\ kernel = "mandelbrot"
    /\ width = WIDTH /\ height = HEIGHT
    /\ center_x = Fin(0) /\ center_y = Fin(0)
    /\ julia_real = Fin(0) /\ julia_imag = Fin(0)
    /\ zoom = Fin(DUnit)
    /\ NoPixel /\ NoLoop

\* Color* h_image = (Color*)malloc(WIDTH * HEIGHT * sizeof(Color));
Malloc ==
    /\ hpc = "malloc"
    /\ \E ok \in BOOLEAN :
          /\ h_ok' = ok
          /\ h_image' = IF ok THEN Fresh ELSE <<>>
    /\ hpc' = "cudaMalloc"
    /\ UNCHANGED <<scene_no, d_ok, fp, files, out>>
    /\ UNCHANGED <<argVars, pixVars, loopVars, gridVars>>

\* cudaMalloc(&d_image, WIDTH * HEIGHT * sizeof(Color));
CudaMalloc ==
    /\ hpc = "cudaMalloc"
    /\ \E ok \in BOOLEAN :
          /\ d_ok' = ok
          /\ d_image' = IF ok THEN Fresh ELSE <<>>
    /\ hpc' = "launch"
    /\ UNCHANGED <<scene_no, h_image, h_ok, fp, files, out>>
    /\ UNCHANGED <<prior, done, wrote>>
    /\ UNCHANGED <<argVars, pixVars, loopVars>>

\* kernel<<<gridSize, blockSize>>>(d_image, WIDTH, HEIGHT, a, b, zoom);
Launch ==
    /\ hpc = "launch"
    /\ kernel' = Scenes[scene_no].kernel
    /\ zoom' = Scenes[scene_no].zoom
    /\ IF Scenes[scene_no].kernel = "julia"
       THEN /\ julia_real' = Scenes[scene_no].a
            /\ julia_imag' = Scenes[scene_no].b
            /\ center_x' = Fin(0) /\ center_y' = Fin(0)
       ELSE /\ center_x' = Scenes[scene_no].a
            /\ center_y' = Scenes[scene_no].b
            /\ julia_real' = Fin(0) /\ julia_imag' = Fin(0)
    /\ width' = WIDTH /\ height' = HEIGHT
    /\ prior' = d_image
    /\ done' = {}
    /\ wrote' = {}
    /\ hpc' = "sync"
    /\ UNCHANGED <<scene_no, h_image, h_ok, d_ok, fp, files, out>>
    /\ UNCHANGED <<d_image, pixVars, loopVars>>

\* cudaDeviceSynchronize(): returns when every thread of the launch has finished
Synchronize ==
    /\ hpc = "sync"
    /\ done = Threads(width, height)
    /\ hpc' = "memcpy"
    /\ UNCHANGED <<scene_no, h_image, h_ok, d_ok, fp, files, out>>
    /\ UNCHANGED <<argVars, pixVars, loopVars, gridVars>>

\* cudaMemcpy(h_image, d_image, ..., cudaMemcpyDeviceToHost);
Memcpy ==
    /\ hpc = "memcpy"
    /\ h_image' = IF h_ok /\ d_ok THEN d_image ELSE h_image
    /\ hpc' = "save"
    /\ UNCHANGED <<scene_no, h_ok, d_ok, fp, files, out>>
    /\ UNCHANGED <<argVars, pixVars, loopVars, gridVars>>

\* save_ppm: FILE* fp = fopen(filename, "wb");
SavePpmOpen ==
    /\ hpc = "save"
    /\ \/ fp' = "null" /\ UNCHANGED files
       \/ /\ fp' = "open"
          /\ files' = [files EXCEPT ![Scenes[scene_no].file] = EmptyFile]
    /\ hpc' = "opened"
    /\ UNCHANGED <<scene_no, h_image, h_ok, d_ok, out>>
    /\ UNCHANGED <<argVars, pixVars, loopVars, gridVars>>

SavePpmOpenFailed_exit ==
    /\ hpc = "opened"
    /\ fp = "null"
    /\ out' = Append(out, <<"Error: Could not open file", Scenes[scene_no].file>>)
    /\ fp' = "closed"
    /\ hpc' = "done"
    /\ UNCHANGED <<scene_no, h_image, h_ok, d_ok, files>>
    /\ UNCHANGED <<argVars, pixVars, loopVars, gridVars>>

\* save_ppm: if (!fp) { printf("Error: ..."); return; }
SavePpmOpenFailed ==
    /\ hpc = "opened"
    /\ fp = "null"
    /\ out' = Append(out, <<"Error: Could not open file", Scenes[scene_no].file>>)
    /\ fp' = "closed"
    /\ AfterSave
    /\ UNCHANGED <<h_image, h_ok, d_ok, files>>
    /\ UNCHANGED <<argVars, pixVars, loopVars, gridVars>>

\* save_ppm: fprintf of the header, fwrite of the image, fclose, printf
SavePpmWrite ==
    /\ hpc = "opened"
    /\ fp = "open"
    /\ h_ok
    /\ files' = [files EXCEPT ![Scenes[scene_no].file] =
                    [exists |-> TRUE, header |-> <<"P6", WIDTH, HEIGHT, 255>>,
                     pixels |-> h_image]]
    /\ out' = Append(out, <<"Saved fractal to", Scenes[scene_no].file>>)
    /\ fp' = "closed"
    /\ AfterSave
    /\ UNCHANGED <<h_image, h_ok, d_ok>>
    /\ UNCHANGED <<argVars, pixVars, loopVars, gridVars>>

\* save_ppm with image = NULL: fwrite reads through the null pointer
SavePpmWriteNull ==
    /\ hpc = "opened"
    /\ fp = "open"
    /\ ~h_ok
    /\ \/ /\ hpc' = "crashed"
          /\ UNCHANGED <<scene_no, fp, files, out>>
       \/ /\ files' = [files EXCEPT ![Scenes[scene_no].file] =
                          [exists |-> TRUE, header |-> <<"P6", WIDTH, HEIGHT, 255>>,
                           pixels |-> Fresh]]
          /\ out' = Append(out, <<"Saved fractal to", Scenes[scene_no].file>>)
          /\ fp' = "closed"
          /\ AfterSave
    /\ UNCHANGED <<h_image, h_ok, d_ok>>
    /\ UNCHANGED <<argVars, pixVars, loopVars, gridVars>>

\* free(h_image); cudaFree(d_image); printf; return 0;
Cleanup ==
    /\ hpc = "free"
    /\ out' = Append(out, <<"All fractals generated successfully!", "">>)
    /\ hpc' = "done"
    /\ UNCHANGED <<scene_no, h_image, h_ok, d_ok, fp, files>>
    /\ UNCHANGED <<argVars, pixVars, loopVars, gridVars>>

NextMain ==
    \/ Malloc
    \/ CudaMalloc
    \/ Launch
    \/ MandelbrotThread
    \/ JuliaThread
    \/ BurningShipThread
    \/ Synchronize
    \/ Memcpy
    \/ SavePpmOpen
    \/ SavePpmOpenFailed
    \/ SavePpmWrite
    \/ SavePpmWriteNull
    \/ Cleanup

SpecMain == InitMain /\ [][NextMain]_vars

(***************************************************************************)
(* Claims about main (checked under SpecMain).                             *)
(***************************************************************************)
\* the image of scene k
RenderedScene(k) ==
    [i \in Pixels(WIDTH, HEIGHT) |->
        PixelColor(Scenes[k].kernel, i % WIDTH, i \div WIDTH, WIDTH, HEIGHT,
                   Scenes[k].a, Scenes[k].b, Scenes[k].zoom)]

FileOf(k) == files[Scenes[k].file]

\* C2: save_ppm is entered for a scene only when all threads of that
\* scene's launch have finished and the host buffer holds their image, and
\* outside save_ppm every file there is holds the complete image of its own
\* scene.
C2_NoPartialImage ==
    /\ hpc \in {"save", "opened"} =>
          /\ done = Threads(width, height)
          /\ h_image = RenderedScene(scene_no)
    /\ hpc \notin {"opened", "crashed"} =>
          \A k \in 1..NSCENES :
              (Scenes[k].file \in DOMAIN files /\ FileOf(k).exists) =>
                  /\ FileOf(k).header = <<"P6", WIDTH, HEIGHT, 255>>
                  /\ FileOf(k).pixels = RenderedScene(k)

\* C2 in the runs where malloc and cudaMalloc both succeeded
C2_WhenAllocated ==
    (hpc \notin {"malloc", "cudaMalloc"} /\ h_ok /\ d_ok) => C2_NoPartialImage

AllocationFailed ==
    \/ hpc \notin {"idle", "malloc"} /\ ~h_ok
    \/ hpc \notin {"idle", "malloc", "cudaMalloc"} /\ ~d_ok

\* C5: once malloc or cudaMalloc has failed, no kernel is launched and no
\* file is written.
C5_AbortsOnAllocationFailure ==
    AllocationFailed =>
        /\ hpc \notin {"sync", "memcpy", "save", "opened", "free"}
        /\ scene_no = 1
        /\ \A f \in DOMAIN files : files[f] = NoFile

NextPc == IF scene_no < NSCENES THEN "launch" ELSE "free"
NextSceneNo == IF scene_no < NSCENES THEN scene_no + 1 ELSE scene_no

OpenError(k) == <<"Error: Could not open file", Scenes[k].file>>

\* C6: when fopen fails for a scene, save_ppm prints the error and writes
\* no file, and main goes on exactly as after a save that succeeded: to the
\* launch of the next scene (or to the end after the last), with both
\* buffers and every file as they were; a save that succeeds changes the
\* scene's own file only.  At the end of main every scene has been
\* reported, and a scene whose open failed has no file.
C6_OpenFailureSkipsScene ==
    /\ [][(hpc = "opened" /\ fp = "null") =>
             /\ out' = Append(out, OpenError(scene_no))
             /\ files' = files
             /\ h_image' = h_image /\ d_image' = d_image
             /\ hpc' = NextPc /\ scene_no' = NextSceneNo]_vars
    /\ [][(hpc = "opened" /\ fp = "open" /\ h_ok) =>
             /\ \A f \in DOMAIN files :
                   f # Scenes[scene_no].file => files'[f] = files[f]
             /\ h_image' = h_image /\ d_image' = d_image
             /\ hpc' = NextPc /\ scene_no' = NextSceneNo]_vars
    /\ [](hpc = "done" =>
             /\ Len(out) = NSCENES + 1
             /\ \A k \in 1..NSCENES :
                   /\ out[k][2] = Scenes[k].file
                   /\ out[k] = OpenError(k) => FileOf(k) = NoFile
                   /\ out[k] # OpenError(k) => FileOf(k).exists)

\* main has ended; the first scene's open failed and left no file, and the
\* second scene's file holds that scene's image
C6_Witness ==
    /\ hpc = "done"
    /\ out[1] = OpenError(1)
    /\ FileOf(1) = NoFile
    /\ FileOf(2).exists
    /\ FileOf(2).pixels = RenderedScene(2)

=============================================================================
